---- MODULE Spec2Model ----
(***************************************************************************)
(* A model of the clothai service: the polling loop of                     *)
(* ClothChangeAPI.wait_for_execution (cloth_change.py) and the HTTP        *)
(* handlers of main.py (POST /change-cloth, GET /status/{execution_id}).   *)
(* Text values the code inspects (status tokens, content types, output     *)
(* URLs) are sequences of one-character strings, so that lower(),          *)
(* startswith() and replace() are computed as the code computes them.      *)
(***************************************************************************)
EXTENDS Integers, Sequences, FiniteSets, TLC

VARIABLES
    \* ---- wait_for_execution (cloth_change.py:125-162)
    max_retries,    \* argument max_retries
    delay,          \* argument delay
    attempt,        \* the loop variable of `for attempt in range(max_retries)`
    pollState,      \* where the call stands: InFlight, Succeeded, Failed, TimedOut, Aborted
    returned,       \* <<snapshot>> once the call has returned one, else <<>>
    raised,         \* <<exception>> once the call has raised one, else <<>>
    slept,          \* total time passed in time.sleep
    fetched,        \* the results of the get_execution_details calls, in order
    \* ---- one HTTP request at a time (main.py)
    req,            \* the request being served
    pc,             \* the handler's position
    resp,           \* <<response>> once the request is answered, else <<>>
    calls,          \* the external calls made for this request, in order
    locals,         \* the handler's local variables
    \* ---- the quota store (database.py) and the requests that race on it
    db,             \* the committed rows of table device_try_counts
    clock,          \* the time datetime.utcnow() last returned
    lastSet,        \* per device: <<try_count>> of the last committed POST /try-count, else <<>>
    sess            \* per racing request: its position, its session and its answer

pollVars == <<max_retries, delay, attempt, pollState, returned, raised, slept, fetched>>
apiVars == <<req, pc, resp, calls, locals>>
dbVars == <<db, clock, lastSet, sess>>
vars == <<max_retries, delay, attempt, pollState, returned, raised, slept, fetched,
          req, pc, resp, calls, locals, db, clock, lastSet, sess>>

\* ---------------------------------------------------------------- bounds
MaxRetries == 3
MaxDelay == 2
MaxCount == 1       \* try_count ranges over -1..MaxCount
MaxClock == 1       \* the clock stops advancing at MaxClock

\* ------------------------------------------------------------------ text
UpperChars == <<"A","B","C","D","E","F","G","H","I","J","K","L","M",
                "N","O","P","Q","R","S","T","U","V","W","X","Y","Z">>
LowerChars == <<"a","b","c","d","e","f","g","h","i","j","k","l","m",
                "n","o","p","q","r","s","t","u","v","w","x","y","z">>

\* str.lower() on one character
LowerChar(c) ==
    IF \E i \in DOMAIN UpperChars : UpperChars[i] = c
    THEN LowerChars[CHOOSE i \in DOMAIN UpperChars : UpperChars[i] = c]
    ELSE c

\* str.lower()
Lower(s) == [i \in DOMAIN s |-> LowerChar(s[i])]

\* str.startswith(p)
StartsWith(s, p) == Len(s) >= Len(p) /\ SubSeq(s, 1, Len(p)) = p

\* str.replace('"', '')
RemoveQuotes(s) == SelectSeq(s, LAMBDA c : c # "\"")

\* dict.get(key, default)
Get(d, key, default) == IF key \in DOMAIN d THEN d[key] ELSE default

\* The literals the code compares with.
SUCCEEDED == <<"s","u","c","c","e","e","d","e","d">>
FAILED == <<"f","a","i","l","e","d">>
ERROR == <<"e","r","r","o","r">>
EMPTY == <<>>

\* ------------------------------------------------------------ exceptions
\* The classes the code raises or names, each with its base class.
Base(cls) ==
    CASE cls = "ConnectionError" -> "RequestException"
      [] cls = "HTTPError" -> "RequestException"
      [] cls = "Timeout" -> "RequestException"
      [] cls = "MissingSchema" -> "RequestException"
      [] cls = "RequestException" -> "OSError"
      [] cls = "TimeoutError" -> "OSError"
      [] cls = "OSError" -> "Exception"
      [] cls = "TypeError" -> "Exception"
      [] cls = "KeyError" -> "Exception"
      [] cls = "HTTPException" -> "Exception"
      [] OTHER -> "BaseException"

RECURSIVE IsSubclass(_, _)
IsSubclass(cls, of) ==
    IF cls = of THEN TRUE
    ELSE IF cls = "BaseException" THEN FALSE
    ELSE IsSubclass(Base(cls), of)

\* `except handler as e` catches an exception of class cls
Catches(handler, cls) == IsSubclass(cls, handler)

\* ===================================================== wait_for_execution
RUNNING == <<"r","u","n","n","i","n","g">>

\* The URL of the produced artifact, as the provider reports it.
PROVIDER_OUT == <<"p","r","o","v","/","o","u","t">>

\* What one call of get_execution_details can give: a snapshot (the provider's JSON
\* object), or an exception of requests (no connection, a non-2xx answer).
PollSnapshots ==
    { [execution_id |-> "abc"],
      [execution_id |-> "abc", status |-> EMPTY],
      [execution_id |-> "abc", status |-> RUNNING],
      [execution_id |-> "abc", status |-> SUCCEEDED, output |-> PROVIDER_OUT],
      [execution_id |-> "abc", status |-> <<"S","U","C","C","E","E","D","E","D">>],
      [execution_id |-> "abc", status |-> <<" ","S","u","c","c","e","e","d","e","d"," ">>],
      [execution_id |-> "abc", status |-> FAILED, error |-> "out of memory"],
      [execution_id |-> "abc", status |-> <<"F","A","I","L","E","D">>],
      [execution_id |-> "abc", status |-> <<"E","r","r","o","r">>, error |-> "bad input"] }

FetchErrors == {"ConnectionError", "HTTPError"}

FetchResults ==
    { [snapshot |-> s] : s \in PollSnapshots } \cup { [raise |-> c] : c \in FetchErrors }

IsSnapshot(r) == "snapshot" \in DOMAIN r

\* Variant of Normalize: the token compared as received, without lower().
NormalizeAsReceived(status) == status

\* status = execution.get('status', '').lower()
Normalize(status) == Lower(status)

StatusOf(snap) == Normalize(Get(snap, "status", EMPTY))

\* Variant of Classify: a snapshot without status token counts as a failure.
ClassifyEmptyAsFailed(status) ==
    IF status = SUCCEEDED THEN "Succeeded"
    ELSE IF status \in {FAILED, ERROR, EMPTY} THEN "Failed"
    ELSE "InFlight"

\* if status == 'succeeded': ... elif status in ['failed', 'error']: ...
Classify(status) ==
    IF status = SUCCEEDED THEN "Succeeded"
    ELSE IF status \in {FAILED, ERROR} THEN "Failed"
    ELSE "InFlight"

\* raise Exception(f"Execution failed: {execution.get('error', 'Unknown error')}")
JobFailedException(snap) ==
    [cls |-> "Exception", msg |-> <<"Execution failed: ", Get(snap, "error", "Unknown error")>>]

\* Variant of TimeoutException: the generic class the job failure is raised with.
TimeoutExceptionGeneric(n) ==
    [cls |-> "Exception", msg |-> <<"Timeout waiting for execution", n>>]

\* raise TimeoutError(f"Timeout waiting for execution ... after {max_retries} attempts")
TimeoutException(n) ==
    [cls |-> "TimeoutError", msg |-> <<"Timeout waiting for execution", n>>]

\* Variant of TransientHandler: `except Exception`, which also catches the job failure.
TransientHandlerBroad == "Exception"

\* Variant of TransientHandler: only a failed connection is caught, not a non-2xx answer.
TransientHandlerNarrow == "ConnectionError"

\* except requests.exceptions.RequestException as e:
TransientHandler == "RequestException"

\* Variant of LoopContinues: one iteration too many.
LoopContinuesOffByOne(a, n) == a <= n

\* for attempt in range(max_retries):
LoopContinues(a, n) == a < n

\* The exception the try body raises on fetch result r (<<>> when it raises none):
\* the one get_execution_details re-raises, or the job-failed one.
BodyException(r) ==
    IF ~IsSnapshot(r) THEN <<[cls |-> r.raise, msg |-> <<"Error getting execution details">>]>>
    ELSE IF Classify(StatusOf(r.snapshot)) = "Failed" THEN <<JobFailedException(r.snapshot)>>
    ELSE <<>>

PollInit ==
    /\ max_retries \in 0..MaxRetries
    /\ delay \in 0..MaxDelay
    /\ attempt = 0
    /\ pollState = "InFlight"
    /\ returned = <<>>
    /\ raised = <<>>
    /\ slept = 0
    /\ fetched = <<>>

\* One iteration of the loop: the fetch, the classification and what follows.
PollTick ==
    /\ pollState = "InFlight"
    /\ LoopContinues(attempt, max_retries)
    /\ \E r \in FetchResults :
        LET exc == BodyException(r) IN
        /\ fetched' = Append(fetched, r)
        /\ IF exc = <<>> /\ Classify(StatusOf(r.snapshot)) = "Succeeded"
           THEN \* return execution
                /\ pollState' = "Succeeded"
                /\ returned' = <<r.snapshot>>
                /\ UNCHANGED <<attempt, slept, raised>>
           ELSE IF exc # <<>> /\ ~Catches(TransientHandler, exc[1].cls)
           THEN \* the exception leaves the function
                /\ pollState' = IF IsSnapshot(r) THEN "Failed" ELSE "Aborted"
                /\ raised' = exc
                /\ UNCHANGED <<attempt, slept, returned>>
           ELSE \* time.sleep(delay), in the try body or in the except clause
                /\ slept' = slept + delay
                /\ attempt' = attempt + 1
                /\ UNCHANGED <<pollState, returned, raised>>
    /\ UNCHANGED <<max_retries, delay>>
    /\ UNCHANGED apiVars
    /\ UNCHANGED dbVars

\* The loop is over: raise TimeoutError
PollTimeout ==
    /\ pollState = "InFlight"
    /\ ~LoopContinues(attempt, max_retries)
    /\ pollState' = "TimedOut"
    /\ raised' = <<TimeoutException(max_retries)>>
    /\ UNCHANGED <<max_retries, delay, attempt, returned, slept, fetched>>
    /\ UNCHANGED apiVars
    /\ UNCHANGED dbVars

\* ============================================================= quota store
DeviceIds == {"d1", "d2"}

\* try_count: int, of TryCountRequest
TryCounts == -1..MaxCount

\* The racing requests of the concurrent case.
Workers == {1, 2}

\* A session that has queried nothing and holds no change.
NoSession == [pc |-> "idle"]

\* Base.metadata.create_all on a new database file: the table, without rows.
DbInit ==
    /\ db = {}
    /\ clock = 0
    /\ lastSet = [d \in DeviceIds |-> <<>>]
    /\ sess = [w \in Workers |-> NoSession]

\* db.query(DeviceTryCount).filter(DeviceTryCount.device_id == d).first():
\* <<row>>, or <<>> for None
First(table, d) ==
    IF \E r \in table : r.device_id = d
    THEN <<CHOOSE r \in table : r.device_id = d>>
    ELSE <<>>

\* The integer primary key the database gives a new row.
NextId(table) ==
    IF table = {} THEN 1
    ELSE 1 + (CHOOSE i \in {r.id : r \in table} : \A r \in table : r.id <= i)

\* datetime.utcnow(): not before the time it last returned
Now(c) == { t \in {c, c + 1} : t <= MaxClock }

\* The attributes of a loaded row that the handler assigned a different value:
\* the session writes only those in its UPDATE.
Changes(row, n, now) ==
    LET assigned == [try_count_left |-> n, last_updated |-> now]
    IN  [c \in {c \in DOMAIN assigned : assigned[c] # row[c]} |-> assigned[c]]

\* Variant of Written: the new count is added to the stored one.
WrittenAccumulating(device, d, n, now) ==
    IF device = <<>>
    THEN [kind |-> "insert", device_id |-> d, try_count_left |-> n, last_updated |-> now]
    ELSE [kind |-> "update", id |-> device[1].id,
          changes |-> Changes(device[1], device[1].try_count_left + n, now)]

\* Variant of Written: a negative count is stored as 0.
WrittenClamped(device, d, n, now) ==
    LET m == IF n < 0 THEN 0 ELSE n IN
    IF device = <<>>
    THEN [kind |-> "insert", device_id |-> d, try_count_left |-> m, last_updated |-> now]
    ELSE [kind |-> "update", id |-> device[1].id,
          changes |-> Changes(device[1], m, now)]

\* Variant of Written: the time of the write is not stored on an update.
WrittenKeepingTime(device, d, n, now) ==
    IF device = <<>>
    THEN [kind |-> "insert", device_id |-> d, try_count_left |-> n, last_updated |-> now]
    ELSE [kind |-> "update", id |-> device[1].id,
          changes |-> Changes(device[1], n, device[1].last_updated)]

\* What the session holds after the if/else of update_try_count and
\* `device.last_updated = datetime.utcnow()`: a new row to insert when the query
\* gave None, else the changed attributes of the row it gave.
Written(device, d, n, now) ==
    IF device = <<>>
    THEN [kind |-> "insert", device_id |-> d, try_count_left |-> n, last_updated |-> now]
    ELSE [kind |-> "update", id |-> device[1].id,
          changes |-> Changes(device[1], n, now)]

\* device_id = Column(String, unique=True): the INSERT of a second row for a
\* device is refused
ViolatesUnique(table, w) ==
    w.kind = "insert" /\ \E r \in table : r.device_id = w.device_id

\* Variant of Committed: the UPDATE has no WHERE clause.
CommittedEveryRow(table, w) ==
    IF w.kind = "insert"
    THEN table \cup {[id |-> NextId(table), device_id |-> w.device_id,
                       try_count_left |-> w.try_count_left,
                       last_updated |-> w.last_updated]}
    ELSE { [c \in DOMAIN r |-> IF c \in DOMAIN w.changes THEN w.changes[c] ELSE r[c]]
           : r \in table }

\* The table after db.commit() of the change w (the commit must not be refused).
Committed(table, w) ==
    IF w.kind = "insert"
    THEN table \cup {[id |-> NextId(table), device_id |-> w.device_id,
                       try_count_left |-> w.try_count_left,
                       last_updated |-> w.last_updated]}
    ELSE { IF r.id = w.id
           THEN [c \in DOMAIN r |-> IF c \in DOMAIN w.changes THEN w.changes[c] ELSE r[c]]
           ELSE r : r \in table }

\* ============================================================ HTTP service
NoReq == [endpoint |-> "none"]

\* No local variable assigned yet.
NoLocals == [n \in {} |-> 0]

\* The locals l after `k = v`
Assign(l, k, v) == [x \in DOMAIN l \cup {k} |-> IF x = k THEN v ELSE l[x]]

ApiIdle ==
    /\ req = NoReq
    /\ pc = "idle"
    /\ resp = <<>>
    /\ calls = <<>>
    /\ locals = NoLocals

\* API_KEY = os.getenv('MOBILE_API_KEY', 'your_mobile_api_key')
API_KEY == "your_mobile_api_key"

ApiKeys == {API_KEY, "some_other_key"}

IMAGE_PREFIX == <<"i","m","a","g","e","/">>
IMAGE_PNG == <<"i","m","a","g","e","/","p","n","g">>
IMAGE_JPEG == <<"i","m","a","g","e","/","j","p","e","g">>
TEXT_PLAIN == <<"t","e","x","t","/","p","l","a","i","n">>
IMAGE_NO_SLASH == <<"i","m","a","g","e">>

\* The content types a client sends with a file.
ContentTypes == {IMAGE_PNG, IMAGE_JPEG, TEXT_PLAIN, IMAGE_NO_SLASH, EMPTY}

ClothingTypes == {"", "upper_body"}

ExecutionIds == {"abc", "xyz"}

Requests ==
    [endpoint : {"change-cloth"}, api_key : ApiKeys, person_ct : ContentTypes,
     cloth_ct : ContentTypes, clothing_type : ClothingTypes]
    \cup [endpoint : {"status"}, api_key : ApiKeys, execution_id : ExecutionIds]
    \cup [endpoint : {"get-try-count"}, api_key : ApiKeys, device_id : DeviceIds]
    \cup [endpoint : {"set-try-count"}, api_key : ApiKeys, device_id : DeviceIds,
          try_count : TryCounts]
    \cup [endpoint : {"devices"}, api_key : ApiKeys]

\* A request arrives; the service serves one request after the other.
Arrive ==
    /\ pc \in {"idle", "done"}
    /\ req' \in Requests
    /\ pc' = "verify"
    /\ resp' = <<>>
    /\ calls' = <<>>
    /\ locals' = NoLocals
    /\ UNCHANGED pollVars
    /\ UNCHANGED dbVars

\* The handler's first step, per endpoint.
Entry(endpoint) ==
    CASE endpoint = "change-cloth" -> "validate"
      [] endpoint = "status" -> "fetch_status"
      [] endpoint = "get-try-count" -> "get_try_count"
      [] endpoint = "set-try-count" -> "update_try_count"
      [] endpoint = "devices" -> "get_devices"

\* Variant of VerifyApiKey: only the POST endpoints check the key.
VerifyApiKeyPostOnly ==
    /\ pc = "verify"
    /\ IF req.api_key # API_KEY /\ req.endpoint \in {"change-cloth", "set-try-count"}
       THEN /\ resp' = <<[code |-> 403, detail |-> <<"Invalid API key">>]>>
            /\ pc' = "done"
       ELSE /\ pc' = Entry(req.endpoint)
            /\ UNCHANGED resp
    /\ UNCHANGED <<req, calls, locals>>
    /\ UNCHANGED pollVars
    /\ UNCHANGED dbVars

\* verify_api_key, the dependency every endpoint runs before its handler
VerifyApiKey ==
    /\ pc = "verify"
    /\ IF req.api_key # API_KEY
       THEN /\ resp' = <<[code |-> 403, detail |-> <<"Invalid API key">>]>>
            /\ pc' = "done"
       ELSE /\ pc' = Entry(req.endpoint)
            /\ UNCHANGED resp
    /\ UNCHANGED <<req, calls, locals>>
    /\ UNCHANGED pollVars
    /\ UNCHANGED dbVars

\* ---------------------------------------------------------- upload_to_imgbb
HostedUrls == {<<"i","b","b","/","1">>, <<"i","b","b","/","2">>}

\* What the POST to the hosting provider can give: the hosted URL of
\* result["data"]["url"], or an exception (no connection, a non-2xx answer, an
\* answer without data.url).
ImgbbOutcomes ==
    { [url |-> u] : u \in HostedUrls }
    \cup { [raise |-> c] : c \in {"ConnectionError", "HTTPError", "KeyError"} }

\* Variant of UploadToImgbb: a failed upload is logged and an empty URL returned.
UploadToImgbbSwallowing(outcome) ==
    IF "url" \in DOMAIN outcome THEN [url |-> outcome.url] ELSE [url |-> EMPTY]

\* upload_to_imgbb: the URL, or HTTPException(500, "Failed to upload image: ...")
UploadToImgbb(outcome) ==
    IF "url" \in DOMAIN outcome
    THEN [url |-> outcome.url]
    ELSE [raise |-> [cls |-> "HTTPException",
                     msg |-> <<"Failed to upload image: ", outcome.raise>>]]

\* raise HTTPException(status_code=500, detail=f"{prefix}{str(e)}")
Http500(prefix, exc) == <<[code |-> 500, detail |-> <<prefix>> \o exc.msg]>>

\* ------------------------------------------------------ POST /change-cloth
\* Variant of ValidationError: the cloth file is not checked.
ValidationErrorPersonOnly(person_ct, cloth_ct) ==
    IF ~StartsWith(person_ct, IMAGE_PREFIX) THEN <<"Person file must be an image">>
    ELSE <<>>

\* The two content-type checks: the message of the first that fails, <<>> if none.
ValidationError(person_ct, cloth_ct) ==
    IF ~StartsWith(person_ct, IMAGE_PREFIX) THEN <<"Person file must be an image">>
    ELSE IF ~StartsWith(cloth_ct, IMAGE_PREFIX) THEN <<"Cloth file must be an image">>
    ELSE <<>>

ChangeClothValidate ==
    /\ pc = "validate"
    /\ LET err == ValidationError(req.person_ct, req.cloth_ct) IN
       IF err # <<>>
       THEN /\ resp' = <<[code |-> 400, detail |-> err]>>
            /\ pc' = "done"
       ELSE /\ pc' = "upload_person"
            /\ UNCHANGED resp
    /\ UNCHANGED <<req, calls, locals>>
    /\ UNCHANGED pollVars
    /\ UNCHANGED dbVars

\* Variant of ChangeClothUploadPerson: a failed upload is tried again.
ChangeClothUploadPersonRetrying ==
    /\ pc = "upload_person"
    /\ \E o \in ImgbbOutcomes :
        LET r == UploadToImgbb(o) IN
        /\ calls' = Append(calls, [op |-> "upload", what |-> "person", outcome |-> o])
        /\ IF "raise" \in DOMAIN r
           THEN /\ pc' = "upload_person"
                /\ UNCHANGED <<resp, locals>>
           ELSE /\ locals' = Assign(locals, "person_url", r.url)
                /\ pc' = "upload_cloth"
                /\ UNCHANGED resp
    /\ UNCHANGED req
    /\ UNCHANGED pollVars
    /\ UNCHANGED dbVars

\* person_url = await upload_to_imgbb(person), inside the handler's try
ChangeClothUploadPerson ==
    /\ pc = "upload_person"
    /\ \E o \in ImgbbOutcomes :
        LET r == UploadToImgbb(o) IN
        /\ calls' = Append(calls, [op |-> "upload", what |-> "person", outcome |-> o])
        /\ IF "raise" \in DOMAIN r
           THEN /\ resp' = Http500("Error processing cloth change: ", r.raise)
                /\ pc' = "done"
                /\ UNCHANGED locals
           ELSE /\ locals' = Assign(locals, "person_url", r.url)
                /\ pc' = "upload_cloth"
                /\ UNCHANGED resp
    /\ UNCHANGED req
    /\ UNCHANGED pollVars
    /\ UNCHANGED dbVars

\* cloth_url = await upload_to_imgbb(cloth)
ChangeClothUploadCloth ==
    /\ pc = "upload_cloth"
    /\ \E o \in ImgbbOutcomes :
        LET r == UploadToImgbb(o) IN
        /\ calls' = Append(calls, [op |-> "upload", what |-> "cloth", outcome |-> o])
        /\ IF "raise" \in DOMAIN r
           THEN /\ resp' = Http500("Error processing cloth change: ", r.raise)
                /\ pc' = "done"
                /\ UNCHANGED locals
           ELSE /\ locals' = Assign(locals, "cloth_url", r.url)
                /\ pc' = "trigger"
                /\ UNCHANGED resp
    /\ UNCHANGED req
    /\ UNCHANGED pollVars
    /\ UNCHANGED dbVars

\* def change_cloth(self, person_image_url, cloth_image_url, cloth_type='', webhook_url='')
GatewayParams == {"person_image_url", "cloth_image_url", "cloth_type", "webhook_url"}

\* The parameters of it that have no default.
GatewayRequired == {"person_image_url", "cloth_image_url"}

\* The keyword arguments of the handler's call of cloth_change_api.change_cloth
HandlerKeywords(l, r) ==
    [person_image_url |-> l.person_url, cloth_image_url |-> l.cloth_url,
     clothing_type |-> r.clothing_type]

\* Python binds a keyword call only when every keyword names a parameter and every
\* parameter without a default is given; otherwise the call raises TypeError and
\* the function's body never runs.
Binds(kw) == DOMAIN kw \subseteq GatewayParams /\ GatewayRequired \subseteq DOMAIN kw

\* The JSON body of the trigger POST
TriggerPayload(kw) ==
    [parameters |-> [Person |-> kw.person_image_url,
                     Cloth |-> kw.cloth_image_url,
                     clothing_type |-> Get(kw, "cloth_type", "")],
     webhook_url |-> Get(kw, "webhook_url", "")]

\* What the trigger POST can give: the provider's acknowledgment, or an exception.
TriggerOutcomes ==
    { [ack |-> [execution_id |-> e, status |-> "queued"]] : e \in ExecutionIds }
    \cup { [raise |-> c] : c \in {"ConnectionError", "HTTPError"} }

\* result = cloth_change_api.change_cloth(person_image_url=..., cloth_image_url=...,
\* clothing_type=...); return result
ChangeClothTrigger ==
    /\ pc = "trigger"
    /\ LET kw == HandlerKeywords(locals, req) IN
       IF ~Binds(kw)
       THEN \* TypeError at the call, caught by the handler's `except Exception`
            /\ calls' = Append(calls, [op |-> "gateway_call", keywords |-> DOMAIN kw])
            /\ resp' = Http500("Error processing cloth change: ",
                                [cls |-> "TypeError",
                                 msg |-> <<"change_cloth() got an unexpected keyword argument">>])
       ELSE \E o \in TriggerOutcomes :
            /\ calls' = calls \o <<[op |-> "gateway_call", keywords |-> DOMAIN kw],
                                    [op |-> "trigger_post", payload |-> TriggerPayload(kw),
                                     outcome |-> o]>>
            /\ IF "raise" \in DOMAIN o
               THEN resp' = Http500("Error processing cloth change: ",
                                    [cls |-> o.raise, msg |-> <<o.raise>>])
               ELSE resp' = <<[code |-> 200, body |-> o.ack]>>
    /\ pc' = "done"
    /\ UNCHANGED <<req, locals>>
    /\ UNCHANGED pollVars
    /\ UNCHANGED dbVars

\* ------------------------------------------------ GET /status/{execution_id}
QUOTE == "\""

\* The provider reports the artifact's URL bare or wrapped in double quotes.
QUOTED_OUT == <<QUOTE>> \o PROVIDER_OUT \o <<QUOTE>>

\* What get_execution_details can give the handler for execution e.
StatusSnapshots(e) ==
    { [execution_id |-> e],
      [execution_id |-> e, status |-> RUNNING, output |-> PROVIDER_OUT],
      [execution_id |-> e, status |-> FAILED, error |-> "out of memory"],
      [execution_id |-> e, status |-> SUCCEEDED],
      [execution_id |-> e, status |-> SUCCEEDED, output |-> EMPTY],
      [execution_id |-> e, status |-> SUCCEEDED, output |-> <<QUOTE, QUOTE>>],
      [execution_id |-> e, status |-> SUCCEEDED, output |-> PROVIDER_OUT],
      [execution_id |-> e, status |-> SUCCEEDED, output |-> QUOTED_OUT],
      [execution_id |-> e, status |-> <<"S","u","c","c","e","e","d","e","d">>,
       output |-> QUOTED_OUT],
      [execution_id |-> e, status |-> <<" ","s","u","c","c","e","e","d","e","d">>,
       output |-> PROVIDER_OUT] }

StatusFetchResults(e) ==
    { [snapshot |-> s] : s \in StatusSnapshots(e) } \cup { [raise |-> c] : c \in FetchErrors }

\* The body of the 200 answer
StatusBody(e, status, details) ==
    [execution_id |-> e, status |-> status, details |-> details]

\* Whether the handler goes on to the artifact: `if status == 'succeeded':` and
\* `if output_url:` on result.get('output', '')
WantsArtifact(status, result) ==
    status = SUCCEEDED /\ Get(result, "output", EMPTY) # EMPTY

\* result = cloth_change_api.get_execution_details(execution_id), the status and
\* the branch on it
StatusFetch ==
    /\ pc = "fetch_status"
    /\ \E r \in StatusFetchResults(req.execution_id) :
        /\ calls' = Append(calls, [op |-> "status_fetch", id |-> req.execution_id, outcome |-> r])
        /\ IF ~IsSnapshot(r)
           THEN /\ resp' = Http500("Error checking execution status: ",
                                    [cls |-> r.raise, msg |-> <<r.raise>>])
                /\ pc' = "done"
                /\ UNCHANGED locals
           ELSE LET result == r.snapshot
                    status == Normalize(Get(result, "status", EMPTY))
                IN  IF WantsArtifact(status, result)
                    THEN /\ locals' = [result |-> result, status |-> status,
                                        output_url |-> RemoveQuotes(result.output)]
                         /\ pc' = "download"
                         /\ UNCHANGED resp
                    ELSE /\ resp' = <<[code |-> 200,
                                        body |-> StatusBody(req.execution_id, status, result)]>>
                         /\ pc' = "done"
                         /\ UNCHANGED locals
    /\ UNCHANGED req
    /\ UNCHANGED pollVars
    /\ UNCHANGED dbVars

\* What requests.get(url) followed by raise_for_status() can give: the bytes, or an
\* exception; an empty URL is refused before anything is sent.
DownloadOutcomes(url) ==
    IF url = EMPTY
    THEN { [raise |-> "MissingSchema"] }
    ELSE { [content |-> "png"], [raise |-> "ConnectionError"], [raise |-> "HTTPError"] }

\* response = requests.get(output_url); response.raise_for_status()
StatusDownload ==
    /\ pc = "download"
    /\ \E o \in DownloadOutcomes(locals.output_url) :
        /\ calls' = Append(calls, [op |-> "download", url |-> locals.output_url, outcome |-> o])
        /\ IF "raise" \in DOMAIN o
           THEN /\ resp' = Http500("Error checking execution status: ",
                                    [cls |-> o.raise, msg |-> <<o.raise>>])
                /\ pc' = "done"
           ELSE /\ pc' = "reupload"
                /\ UNCHANGED resp
    /\ UNCHANGED <<req, locals>>
    /\ UNCHANGED pollVars
    /\ UNCHANGED dbVars

\* Variant of OutputUrlValue: the provider's own URL is handed on.
OutputUrlValueProvider(l, imgbb_url) == l.output_url

\* result['output_url'] = imgbb_url
OutputUrlValue(l, imgbb_url) == imgbb_url

\* Variant of ReuploadFailed: the failed re-upload is left out of the answer and
\* the status is answered as fetched.
ReuploadFailedHidden(e, l, exc) ==
    <<[code |-> 200, body |-> StatusBody(e, l.status, l.result)]>>

\* The answer when the re-upload raises: the handler's `except Exception`
ReuploadFailed(e, l, exc) == Http500("Error checking execution status: ", exc)

\* imgbb_url = await upload_to_imgbb(temp_file); result['output_url'] = imgbb_url;
\* return {...}
StatusReupload ==
    /\ pc = "reupload"
    /\ \E o \in ImgbbOutcomes :
        LET r == UploadToImgbb(o) IN
        /\ calls' = Append(calls, [op |-> "upload", what |-> "output", outcome |-> o])
        /\ IF "raise" \in DOMAIN r
           THEN resp' = ReuploadFailed(req.execution_id, locals, r.raise)
           ELSE resp' = <<[code |-> 200,
                           body |-> StatusBody(req.execution_id, locals.status,
                                               Assign(locals.result, "output_url",
                                                      OutputUrlValue(locals, r.url)))]>>
    /\ pc' = "done"
    /\ UNCHANGED <<req, locals>>
    /\ UNCHANGED pollVars
    /\ UNCHANGED dbVars

\* ------------------------------------------- GET /try-count/{device_id}
\* Variant of TryCountLeft: a device without record is answered the column default.
TryCountLeftDefault(device) ==
    IF device = <<>> THEN <<3>> ELSE <<device[1].try_count_left>>

\* try_count_left of the answer: <<>> for None
TryCountLeft(device) ==
    IF device = <<>> THEN <<>> ELSE <<device[1].try_count_left>>

\* get_try_count: the query and the answer
QuotaGet ==
    /\ pc = "get_try_count"
    /\ LET device == First(db, req.device_id) IN
       resp' = <<[code |-> 200,
                  body |-> [device_id |-> req.device_id,
                            try_count_left |-> TryCountLeft(device)]]>>
    /\ pc' = "done"
    /\ UNCHANGED <<req, calls, locals>>
    /\ UNCHANGED <<db, clock, lastSet, sess>>
    /\ UNCHANGED pollVars

\* ------------------------------------------------------- POST /try-count
\* update_try_count: the query, the insert or update, the commit and the answer.
\* The handler awaits nothing, so one server process runs it in one piece.
QuotaSet ==
    /\ pc = "update_try_count"
    /\ \E now \in Now(clock) :
        LET device == First(db, req.device_id)
            w == Written(device, req.device_id, req.try_count, now)
        IN  /\ clock' = now
            /\ IF ViolatesUnique(db, w)
               THEN /\ resp' = Http500("", [cls |-> "IntegrityError",
                                            msg |-> <<"UNIQUE constraint failed">>])
                    /\ UNCHANGED <<db, lastSet>>
               ELSE /\ db' = Committed(db, w)
                    /\ lastSet' = [lastSet EXCEPT ![req.device_id] = <<req.try_count>>]
                    /\ resp' = <<[code |-> 200,
                                   body |-> [device_id |-> req.device_id,
                                             try_count_left |->
                                                 TryCountLeft(First(db', req.device_id))]]>>
    /\ pc' = "done"
    /\ UNCHANGED <<req, calls, locals, sess>>
    /\ UNCHANGED pollVars

\* ----------------------------------------------------------- GET /devices
\* get_devices: every row
DevicesList ==
    /\ pc = "get_devices"
    /\ resp' = <<[code |-> 200, body |-> db]>>
    /\ pc' = "done"
    /\ UNCHANGED <<req, calls, locals>>
    /\ UNCHANGED <<db, clock, lastSet, sess>>
    /\ UNCHANGED pollVars

\* ------------------------------------- POST /try-count, two at a time
\* Two update_try_count requests with a valid key, each with its own session
\* (get_db), served by two server processes on the one database file: their
\* query, their assignments and their commit interleave.
RaceRequests == [device_id : DeviceIds, try_count : TryCounts]

\* The tables the two requests can find: none, or the row an earlier
\* POST /try-count for d1 left.
RaceTables ==
    {{}} \cup { Committed({}, Written(<<>>, "d1", n, 0)) : n \in TryCounts }

InitRace ==
    /\ PollInit /\ max_retries = 0 /\ delay = 0
    /\ ApiIdle
    /\ db \in RaceTables
    /\ clock = 0
    /\ lastSet = [d \in DeviceIds |-> TryCountLeft(First(db, d))]
    /\ sess = [w \in Workers |-> NoSession]

RaceArrive(w) ==
    /\ sess[w].pc = "idle"
    /\ \E r \in RaceRequests :
        sess' = [sess EXCEPT ![w] = [pc |-> "query", request |-> r]]
    /\ UNCHANGED <<db, clock, lastSet>>
    /\ UNCHANGED <<pollVars, apiVars>>

\* line 220: the query
RaceQuery(w) ==
    /\ sess[w].pc = "query"
    /\ sess' = [sess EXCEPT ![w] =
                 [pc |-> "write", request |-> sess[w].request,
                  device |-> First(db, sess[w].request.device_id)]]
    /\ UNCHANGED <<db, clock, lastSet>>
    /\ UNCHANGED <<pollVars, apiVars>>

\* lines 222-231: the new row or the assignments, held by the session
RaceWrite(w) ==
    /\ sess[w].pc = "write"
    /\ \E now \in Now(clock) :
        /\ clock' = now
        /\ sess' = [sess EXCEPT ![w] =
                     [pc |-> "commit", request |-> sess[w].request,
                      written |-> Written(sess[w].device, sess[w].request.device_id,
                                          sess[w].request.try_count, now)]]
    /\ UNCHANGED <<db, lastSet>>
    /\ UNCHANGED <<pollVars, apiVars>>

\* lines 232-236: the commit, and the answer: the row as the database has it
\* after the commit, or 500 when the commit raised
RaceCommit(w) ==
    /\ sess[w].pc = "commit"
    /\ LET r == sess[w].request IN
       IF ViolatesUnique(db, sess[w].written)
       THEN /\ sess' = [sess EXCEPT ![w] =
                        [pc |-> "done", request |-> r,
                         resp |-> Http500("", [cls |-> "IntegrityError",
                                               msg |-> <<"UNIQUE constraint failed">>])]]
            /\ UNCHANGED <<db, lastSet>>
       ELSE /\ db' = Committed(db, sess[w].written)
            /\ lastSet' = [lastSet EXCEPT ![r.device_id] = <<r.try_count>>]
            /\ sess' = [sess EXCEPT ![w] =
                        [pc |-> "done", request |-> r,
                         resp |-> <<[code |-> 200,
                                     body |-> [device_id |-> r.device_id,
                                               try_count_left |->
                                                   TryCountLeft(First(db', r.device_id))]]>>]]
    /\ UNCHANGED clock
    /\ UNCHANGED <<pollVars, apiVars>>

\* ========================================================== specifications
InitApi == PollInit /\ max_retries = 0 /\ delay = 0 /\ ApiIdle /\ DbInit

ApiNext ==
    \/ Arrive
    \/ VerifyApiKey
    \/ ChangeClothValidate
    \/ ChangeClothUploadPerson
    \/ ChangeClothUploadCloth
    \/ ChangeClothTrigger
    \/ StatusFetch
    \/ StatusDownload
    \/ StatusReupload
    \/ QuotaGet
    \/ QuotaSet
    \/ DevicesList

SpecApi == InitApi /\ [][ApiNext]_vars

InitPoll == PollInit /\ ApiIdle /\ DbInit

PollNext == PollTick \/ PollTimeout

SpecPoll == InitPoll /\ [][PollNext]_vars

RaceNext ==
    \E w \in Workers :
        \/ RaceArrive(w)
        \/ RaceQuery(w)
        \/ RaceWrite(w)
        \/ RaceCommit(w)

SpecRace == InitRace /\ [][RaceNext]_vars

\* ================================================== properties of polling
IsSpace(c) == c \in {" ", "\t", "\n"}

RECURSIVE LStrip(_)
LStrip(s) == IF s # <<>> /\ IsSpace(Head(s)) THEN LStrip(Tail(s)) ELSE s

RECURSIVE RStrip(_)
RStrip(s) == IF s # <<>> /\ IsSpace(s[Len(s)]) THEN RStrip(SubSeq(s, 1, Len(s) - 1)) ELSE s

\* The token without its surrounding whitespace.
Strip(s) == RStrip(LStrip(s))

HasStatus(r) == IsSnapshot(r) /\ "status" \in DOMAIN r.snapshot

\* Fetch result r carries a token equal to "succeeded", case-insensitively.
IsSuccessResult(r) == HasStatus(r) /\ Lower(r.snapshot.status) = SUCCEEDED

\* The same, with surrounding whitespace ignored as well.
IsPaddedSuccessResult(r) == HasStatus(r) /\ Lower(Strip(r.snapshot.status)) = SUCCEEDED

\* Fetch result r carries a token equal to "failed" or "error", case-insensitively.
IsFailureResult(r) == HasStatus(r) /\ Lower(r.snapshot.status) \in {FAILED, ERROR}

\* Fetch i of this run ended the polling in Succeeded, returning its snapshot as it
\* was fetched, with no fetch after it and nothing raised.
SucceededAt(i) ==
    /\ pollState = "Succeeded"
    /\ returned = <<fetched[i].snapshot>>
    /\ raised = <<>>
    /\ i = Len(fetched)
    /\ i <= max_retries

\* C1 as stated: a fetch that returns a token equal to "succeeded" case-insensitively
\* and with arbitrary surrounding whitespace ends the polling in Succeeded with that
\* snapshot returned unchanged and no further fetch.
C1_SuccessIgnoringCaseAndWhitespace ==
    \A i \in DOMAIN fetched : IsPaddedSuccessResult(fetched[i]) => SucceededAt(i)

\* C1 amended: a fetch that returns a token equal to "succeeded" case-insensitively
\* (no surrounding whitespace) ends the polling in Succeeded with that snapshot
\* returned unchanged and no further fetch; a token with surrounding whitespace is
\* not the success token: the polling stays in flight on it.
C1_SuccessIgnoringCase ==
    \A i \in DOMAIN fetched :
        /\ IsSuccessResult(fetched[i]) => SucceededAt(i)
        /\ (IsPaddedSuccessResult(fetched[i]) /\ ~IsSuccessResult(fetched[i]))
              => /\ attempt >= i
                 /\ slept >= i * delay
                 /\ i = Len(fetched) => (pollState \in {"InFlight", "TimedOut"} /\ returned = <<>>)

\* An upper-case success token, seen on a later tick, ended the polling in Succeeded.
C1_Witness ==
    /\ pollState = "Succeeded"
    /\ Len(fetched) >= 2
    /\ fetched[Len(fetched)].snapshot.status = <<"S","U","C","C","E","E","D","E","D">>
    /\ returned = <<fetched[Len(fetched)].snapshot>>

AllTransportErrors == \A i \in DOMAIN fetched : ~IsSnapshot(fetched[i])

\* C2: when every status fetch fails with a transport error, the polling makes
\* exactly max_retries fetches, waits delay after each (max_retries x delay in all),
\* then raises the timeout error; it never raises the job-failed error and never
\* returns a snapshot.
C2_AllTransportErrorsTimeOut ==
    AllTransportErrors =>
        /\ pollState \in {"InFlight", "TimedOut"}
        /\ returned = <<>>
        /\ Len(fetched) <= max_retries
        /\ attempt = Len(fetched)
        /\ slept = Len(fetched) * delay
        /\ pollState = "InFlight" => raised = <<>>
        /\ (pollState = "InFlight" /\ Len(fetched) < max_retries) => ENABLED PollTick
        /\ (pollState = "InFlight" /\ Len(fetched) = max_retries)
              => (ENABLED PollTimeout /\ ~ENABLED PollTick)
        /\ pollState = "TimedOut" =>
              /\ Len(fetched) = max_retries
              /\ slept = max_retries * delay
              /\ raised = <<TimeoutException(max_retries)>>
              /\ raised[1].cls = "TimeoutError"

\* A run of three failed fetches with a positive delay has timed out.
C2_Witness ==
    /\ AllTransportErrors
    /\ pollState = "TimedOut"
    /\ max_retries = 3
    /\ Len(fetched) = 3
    /\ delay = 2
    /\ slept = 6

\* C3: a fetch that returns a token equal to "failed" or "error" case-insensitively
\* stops the polling at that tick in Failed: no wait, no further fetch, the error not
\* swallowed by the handler of transient errors, and the job-failed error raised
\* with the snapshot's error detail.
C3_FailureTokenRaisesJobFailed ==
    \A i \in DOMAIN fetched :
        IsFailureResult(fetched[i]) =>
            /\ pollState = "Failed"
            /\ i = Len(fetched)
            /\ attempt = i - 1
            /\ slept = (i - 1) * delay
            /\ returned = <<>>
            /\ Len(raised) = 1
            /\ raised[1].cls = "Exception"
            /\ raised[1].msg[1] = "Execution failed: "
            /\ "error" \in DOMAIN fetched[i].snapshot
                  => raised[1].msg[2] = fetched[i].snapshot.error

\* A mixed-case "Error" token with an error detail, seen on a later tick, ended the
\* polling in Failed.
C3_Witness ==
    /\ pollState = "Failed"
    /\ Len(fetched) >= 2
    /\ fetched[Len(fetched)].snapshot.status = <<"E","r","r","o","r">>
    /\ raised[1].msg[2] = "bad input"

\* Fetch result r leaves the job in flight as the claim has it: a transport
\* failure, or a snapshot whose token is neither the success nor a failure token.
IsInFlightResult(r) == ~IsSuccessResult(r) /\ ~IsFailureResult(r)

\* C4: a transport failure on a status fetch never ends the polling in Failed: it
\* consumes one retry unit and waits the same delay, and polling goes on. So after
\* any mix of transport failures and in-flight tokens on ticks 1..k-1, with
\* k <= max_retries, a "succeeded" snapshot on tick k ends the polling in Succeeded.
C4_TransportFailureIsTransient ==
    /\ \A i \in DOMAIN fetched :
          ~IsSnapshot(fetched[i]) =>
              /\ i < Len(fetched) \/ pollState \in {"InFlight", "TimedOut"}
              /\ attempt >= i
              /\ slept >= i * delay
    /\ pollState \in {"InFlight", "TimedOut"} =>
          (attempt = Len(fetched) /\ slept = Len(fetched) * delay)
    /\ \A k \in DOMAIN fetched :
          ( /\ \A j \in 1..(k - 1) : IsInFlightResult(fetched[j])
            /\ IsSuccessResult(fetched[k]) )
          => SucceededAt(k)

\* A success on the last tick of the budget, after a failed connection and a non-2xx
\* answer.
C4_Witness ==
    /\ pollState = "Succeeded"
    /\ max_retries = 3
    /\ Len(fetched) = 3
    /\ fetched[1] = [raise |-> "ConnectionError"]
    /\ fetched[2] = [raise |-> "HTTPError"]

\* C5: the error raised when the budget is exhausted can be told from the error
\* raised on a provider-reported failure (an `except TimeoutError` clause catches
\* the first and not the second); the timeout happens only when no fetch of the run
\* returned a success or failure token, the job failure only when a fetch returned
\* a failure token.
C5_TimeoutDistinctFromJobFailure ==
    /\ pollState = "TimedOut" =>
          /\ Len(raised) = 1
          /\ Catches("TimeoutError", raised[1].cls)
          /\ \A i \in DOMAIN fetched : IsInFlightResult(fetched[i])
    /\ pollState = "Failed" =>
          /\ Len(raised) = 1
          /\ ~Catches("TimeoutError", raised[1].cls)
          /\ fetched # <<>>
          /\ IsFailureResult(fetched[Len(fetched)])
    /\ raised # <<>> => pollState \in {"TimedOut", "Failed"}

\* A run that saw a running job and a failed fetch, and then timed out.
C5_Witness ==
    /\ pollState = "TimedOut"
    /\ Len(fetched) = 2
    /\ HasStatus(fetched[1])
    /\ ~IsSnapshot(fetched[2])

\* ============================================== properties of the handlers
Answered == pc = "done" /\ Len(resp) = 1

\* Call c of the log raised instead of giving a result.
CallFailed(c) == "raise" \in DOMAIN c.outcome

IsUpload(c, what) == c.op = "upload" /\ c.what = what

\* Call c is the handler calling the job gateway's change_cloth, or the trigger
\* POST that call sends.
IsTriggerCall(c) == c.op \in {"gateway_call", "trigger_post"}

HasImageContentType(ct) == StartsWith(ct, IMAGE_PREFIX)

ValidSubmission ==
    /\ req.endpoint = "change-cloth"
    /\ req.api_key = API_KEY
    /\ HasImageContentType(req.person_ct)
    /\ HasImageContentType(req.cloth_ct)

\* C6: a POST /change-cloth with a valid API key and two image files, whose two
\* uploads succeed and whose trigger the provider does not refuse, issues the
\* trigger with the two hosted URLs and the given clothing_type and answers with
\* the provider's acknowledgment, not with an error.
C6_SubmissionReturnsAcknowledgment ==
    ( /\ Answered
      /\ ValidSubmission
      /\ \E i \in DOMAIN calls : IsUpload(calls[i], "person") /\ ~CallFailed(calls[i])
      /\ \E i \in DOMAIN calls : IsUpload(calls[i], "cloth") /\ ~CallFailed(calls[i])
      /\ \A i \in DOMAIN calls : calls[i].op = "trigger_post" => ~CallFailed(calls[i]) )
    => /\ resp[1].code = 200
       /\ \E i \in DOMAIN calls :
            /\ calls[i].op = "trigger_post"
            /\ calls[i].payload.parameters =
                 [Person |-> locals.person_url, Cloth |-> locals.cloth_url,
                  clothing_type |-> req.clothing_type]
            /\ resp[1].body = calls[i].outcome.ack

\* C7: in POST /change-cloth, once the person upload or the cloth upload has
\* failed the request has failed and no trigger call was made for it; a trigger
\* call is only ever made after both uploads have returned a hosted URL.
C7_NoTriggerAfterFailedUpload ==
    req.endpoint = "change-cloth" =>
        /\ (\E i \in DOMAIN calls : calls[i].op = "upload" /\ CallFailed(calls[i]))
             => /\ \A k \in DOMAIN calls : ~IsTriggerCall(calls[k])
                /\ Answered
                /\ resp[1].code = 500
        /\ \A k \in DOMAIN calls :
             IsTriggerCall(calls[k]) =>
                 \E i, j \in 1..(k - 1) :
                     /\ i < j
                     /\ IsUpload(calls[i], "person") /\ ~CallFailed(calls[i])
                     /\ calls[i].outcome.url \in HostedUrls
                     /\ IsUpload(calls[j], "cloth") /\ ~CallFailed(calls[j])
                     /\ calls[j].outcome.url \in HostedUrls

\* The cloth upload failed after the person upload had succeeded: the request was
\* answered with an error and nothing else was called.
C7_Witness ==
    /\ Answered
    /\ ValidSubmission
    /\ Len(calls) = 2
    /\ IsUpload(calls[1], "person") /\ ~CallFailed(calls[1])
    /\ IsUpload(calls[2], "cloth") /\ CallFailed(calls[2])
    /\ resp[1].code = 500

\* C8: a POST /change-cloth whose person file or cloth file has no image content
\* type ends with a validation (4xx) error and makes no external call at all,
\* whether or not the other file is valid.
C8_ValidationFailsFast ==
    ( /\ req.endpoint = "change-cloth"
      /\ ~HasImageContentType(req.person_ct) \/ ~HasImageContentType(req.cloth_ct) )
    => /\ calls = <<>>
       /\ pc \in {"verify", "validate", "done"}
       /\ Answered => resp[1].code \in 400..499
       /\ (Answered /\ req.api_key = API_KEY) => resp[1].code = 400

\* A valid person image with a text file as cloth was refused with 400, nothing
\* called.
C8_Witness ==
    /\ Answered
    /\ req.endpoint = "change-cloth"
    /\ req.api_key = API_KEY
    /\ req.person_ct = IMAGE_PNG
    /\ req.cloth_ct = TEXT_PLAIN
    /\ resp[1].code = 400
    /\ calls = <<>>

\* The status fetch of this GET /status request gave a snapshot whose normalized
\* status is "succeeded".
FetchedSucceeded ==
    /\ req.endpoint = "status"
    /\ calls # <<>>
    /\ calls[1].op = "status_fetch"
    /\ IsSnapshot(calls[1].outcome)
    /\ Lower(Get(calls[1].outcome.snapshot, "status", EMPTY)) = SUCCEEDED

\* The artifact's download or its upload to the hosting provider failed.
ReuploadStageFailed ==
    \E i \in DOMAIN calls : calls[i].op \in {"download", "upload"} /\ CallFailed(calls[i])

\* C9 as stated: when the snapshot indicates success but the re-upload stage
\* fails, GET /status still answers with the job's status (succeeded) for that
\* execution, the re-upload error beside it; the status is not replaced by a bare
\* error.
C9_StatusKeptWhenReuploadFails ==
    (Answered /\ FetchedSucceeded /\ ReuploadStageFailed)
    => /\ resp[1].code = 200
       /\ "body" \in DOMAIN resp[1]
       /\ resp[1].body.execution_id = req.execution_id
       /\ resp[1].body.status = SUCCEEDED

\* C9 amended: when the snapshot indicates success but the re-upload stage fails,
\* GET /status fails as a whole: it answers 500 with a detail that names the
\* re-upload error, and returns no job status.
C9_ReuploadFailureAnswers500 ==
    (FetchedSucceeded /\ ReuploadStageFailed)
    => /\ Answered
       /\ resp[1].code = 500
       /\ DOMAIN resp[1] = {"code", "detail"}
       /\ resp[1].detail[1] = "Error checking execution status: "
       /\ CallFailed(calls[Len(calls)])
       /\ resp[1].detail[Len(resp[1].detail)] = calls[Len(calls)].outcome.raise

\* The job had succeeded and its artifact was downloaded, but the upload to the
\* hosting provider failed: the request was answered 500.
C9_Witness ==
    /\ Answered
    /\ FetchedSucceeded
    /\ Len(calls) = 3
    /\ calls[2].op = "download" /\ ~CallFailed(calls[2])
    /\ calls[3].op = "upload" /\ CallFailed(calls[3])
    /\ resp[1].code = 500

\* C10: GET /status answers {execution_id, status, details}; details gets an
\* output_url only when the normalized status is "succeeded" and the artifact was
\* downloaded and uploaded, and it is then the URL the uploader returned, not the
\* provider's; for every other status nothing is downloaded and nothing uploaded.
C10_StatusAnswer ==
    req.endpoint = "status" =>
        /\ \A k \in DOMAIN calls :
             calls[k].op \in {"download", "upload"} => FetchedSucceeded
        /\ (Answered /\ resp[1].code = 200) =>
             LET body == resp[1].body
                 snap == calls[1].outcome.snapshot
                 rehosted ==
                     /\ FetchedSucceeded
                     /\ Len(calls) = 3
                     /\ calls[2].op = "download" /\ ~CallFailed(calls[2])
                     /\ calls[3].op = "upload" /\ ~CallFailed(calls[3])
             IN  /\ DOMAIN body = {"execution_id", "status", "details"}
                 /\ body.execution_id = req.execution_id
                 /\ body.status = Lower(Get(snap, "status", EMPTY))
                 /\ \A f \in DOMAIN snap : body.details[f] = snap[f]
                 /\ DOMAIN body.details \in {DOMAIN snap, DOMAIN snap \cup {"output_url"}}
                 /\ "output_url" \in DOMAIN body.details <=> rehosted
                 /\ rehosted =>
                      /\ body.details.output_url = calls[3].outcome.url
                      /\ body.details.output_url \in HostedUrls
                      /\ body.details.output_url # snap.output
                      /\ body.details.output_url # RemoveQuotes(snap.output)

\* A mixed-case "Succeeded" with a quoted output URL: the artifact was fetched from
\* the unquoted URL and re-hosted, and the answer carries the hosted URL.
C10_Witness ==
    /\ Answered
    /\ req.endpoint = "status"
    /\ resp[1].code = 200
    /\ FetchedSucceeded
    /\ calls[1].outcome.snapshot.status = <<"S","u","c","c","e","e","d","e","d">>
    /\ Len(calls) = 3
    /\ calls[2].url = PROVIDER_OUT
    /\ resp[1].body.details.output_url = calls[3].outcome.url

\* ------------------------------------------------------------ quota claims
\* The rows of the table for device d.
RowsOf(d) == { r \in db : r.device_id = d }

\* The request being served is of this endpoint and was answered 200.
AnsweredOk(endpoint) ==
    /\ req.endpoint = endpoint
    /\ Answered
    /\ resp[1].code = 200

\* C11: after set(d, n) completes, get(d) returns n, and after a later set(d, m)
\* it returns m: the value is overwritten, never accumulated. Whatever sequence
\* of sets ran one after the other, there is at most one record per device, and
\* exactly one for a device that was set, holding the value of the last set.
C11_ReadYourWrite ==
    /\ \A d \in DeviceIds :
        /\ Cardinality(RowsOf(d)) <= 1
        /\ lastSet[d] # <<>> =>
              \E r \in db : /\ RowsOf(d) = {r}
                            /\ r.try_count_left = lastSet[d][1]
    /\ AnsweredOk("set-try-count") =>
          /\ lastSet[req.device_id] = <<req.try_count>>
          /\ resp[1].body = [device_id |-> req.device_id,
                             try_count_left |-> <<req.try_count>>]
    /\ AnsweredOk("get-try-count") =>
          resp[1].body = [device_id |-> req.device_id,
                          try_count_left |-> lastSet[req.device_id]]

\* A get of d1 was answered 1 from the one record of d1, written by a set that
\* found the record of an earlier set (the record was last written at time 1
\* and is not the newest row of a table of two).
C11_Witness ==
    /\ AnsweredOk("get-try-count")
    /\ req.device_id = "d1"
    /\ resp[1].body.try_count_left = <<1>>
    /\ \E r \in db : RowsOf("d1") = {r} /\ r.id = 1 /\ r.last_updated = 1
    /\ Cardinality(db) = 2

\* ------------------------------------------------- concurrent quota claims
\* Both racing requests were answered, and they named the same device.
RaceOver ==
    /\ \A w \in Workers : sess[w].pc = "done"
    /\ sess[1].request.device_id = sess[2].request.device_id

\* C12: when two POST /try-count requests for one device interleave at their
\* query, their write and their commit, also when the device has no record yet,
\* both are answered 200, the device has exactly one record afterwards, and the
\* record holds the try_count of the request that committed last.
C12_BothSucceedLastCommitWins ==
    RaceOver =>
        /\ \A w \in Workers : sess[w].resp[1].code = 200
        /\ \E r \in db :
              /\ RowsOf(sess[1].request.device_id) = {r}
              /\ <<r.try_count_left>> = lastSet[r.device_id]

\* The two ways the race goes wrong. Without record, both queries give None, both
\* sessions insert, and the commit that comes second is refused by the unique
\* index and answered 500. With a record, a request whose try_count equals the
\* count it read writes no count, so that the count of the other request, which
\* committed first, stays.
C12_RefusedInsert ==
    /\ RaceOver
    /\ \E w \in Workers : sess[w].resp[1].code = 500

C12_LostWrite ==
    /\ RaceOver
    /\ \A w \in Workers : sess[w].resp[1].code = 200
    /\ \E r \in db : /\ r.device_id = sess[1].request.device_id
                     /\ <<r.try_count_left>> # lastSet[r.device_id]

\* C13: in every reachable state the remaining_attempts of every record is an
\* integer >= 0.
C13_CountsNonNegative ==
    \A r \in db : r.try_count_left \in Nat

\* C13, amended: in every reachable state the remaining_attempts of every record
\* is an integer, the try_count of the last POST /try-count of its device as it
\* was given, negative when that was negative.
C13_CountsAsGiven ==
    \A r \in db :
        /\ r.try_count_left \in Int
        /\ <<r.try_count_left>> = lastSet[r.device_id]
        /\ (AnsweredOk("set-try-count") /\ req.device_id = r.device_id)
              => r.try_count_left = req.try_count

\* A POST /try-count with try_count -1 was answered 200 and the record holds -1.
C13_Witness ==
    /\ AnsweredOk("set-try-count")
    /\ req.try_count = -1
    /\ resp[1].body.try_count_left = <<-1>>
    /\ \E r \in db : r.device_id = req.device_id /\ r.try_count_left = -1

\* C14: no step of POST /change-cloth, GET /status/{execution_id},
\* GET /try-count/{device_id} or GET /devices changes a record (a job submission
\* or status check, failed or not, decrements nothing); the records change only
\* in the handler of POST /try-count, and there only the record of the device
\* the request names.
C14_OnlySetWritesItsRecord ==
    [][ /\ db' # db => /\ req.endpoint = "set-try-count"
                       /\ pc = "update_try_count"
                       /\ req' = req
        /\ \A d \in DeviceIds :
              {r \in db' : r.device_id = d} # {r \in db : r.device_id = d}
                  => d = req.device_id ]_vars

\* A job submission went through both uploads to the gateway call and was
\* answered, and the records of both devices are there as they were set.
C14_Witness ==
    /\ Answered
    /\ req.endpoint = "change-cloth"
    /\ Len(calls) = 3
    /\ \A d \in DeviceIds :
          \E r \in db : RowsOf(d) = {r} /\ <<r.try_count_left>> = lastSet[d]

\* ------------------------------------------------------ call count claims
\* The positions of the call log with a call of operation op.
CallsOf(op) == { i \in DOMAIN calls : calls[i].op = op }

\* The positions of the call log with an upload of image `what`.
UploadsOf(what) == { i \in DOMAIN calls : IsUpload(calls[i], what) }

\* C15: one POST /change-cloth uploads each image at most once and calls the
\* trigger at most once; one GET /status/{execution_id} fetches the status,
\* downloads the artifact and uploads it again at most once each; and a call
\* that failed is the last call of its request: the handlers repeat nothing.
C15_NoRetryInHandlers ==
    /\ req.endpoint = "change-cloth" =>
          /\ Cardinality(UploadsOf("person")) <= 1
          /\ Cardinality(UploadsOf("cloth")) <= 1
          /\ Cardinality(CallsOf("upload")) <= 2
          /\ Cardinality(CallsOf("gateway_call")) <= 1
          /\ Cardinality(CallsOf("trigger_post")) <= 1
    /\ req.endpoint = "status" =>
          /\ Cardinality(CallsOf("status_fetch")) <= 1
          /\ Cardinality(CallsOf("download")) <= 1
          /\ Cardinality(CallsOf("upload")) <= 1
    /\ \A i \in DOMAIN calls :
          ("outcome" \in DOMAIN calls[i] /\ CallFailed(calls[i]))
              => /\ i = Len(calls)
                 /\ Answered
                 /\ resp[1].code = 500

\* The upload of the person image failed: it was the only call of the request,
\* which was answered 500.
C15_Witness ==
    /\ Answered
    /\ req.endpoint = "change-cloth"
    /\ Len(calls) = 1
    /\ IsUpload(calls[1], "person") /\ CallFailed(calls[1])
    /\ resp[1].code = 500

\* C16: a GET /try-count/{device_id} for a device that no POST /try-count has
\* set is answered without error, with try_count_left null, and leaves the
\* device without record; it is so for every such get until a set of the device
\* commits.
C16_AbsentIsAnswered ==
    ( /\ req.endpoint = "get-try-count"
      /\ req.api_key = API_KEY
      /\ Answered )
    => /\ resp[1].code = 200
       /\ lastSet[req.device_id] = <<>> =>
             /\ resp[1].body = [device_id |-> req.device_id, try_count_left |-> <<>>]
             /\ RowsOf(req.device_id) = {}
       /\ resp[1].body.try_count_left = <<>> => lastSet[req.device_id] = <<>>

\* A get of d1, never set, was answered null while d2 has its record.
C16_Witness ==
    /\ AnsweredOk("get-try-count")
    /\ req.device_id = "d1"
    /\ resp[1].body.try_count_left = <<>>
    /\ RowsOf("d1") = {}
    /\ RowsOf("d2") # {}

\* --------------------------------------------------- polling claims, again
\* Fetch result r is a snapshot whose token is neither the success token nor a
\* failure token: any other word, the empty token, or no status field at all.
IsUnrecognizedResult(r) == IsSnapshot(r) /\ IsInFlightResult(r)

OnlyUnrecognized == \A i \in DOMAIN fetched : IsUnrecognizedResult(fetched[i])

\* C17: a tick whose snapshot carries any token other than the success token and
\* the failure tokens "failed" and "error" (the empty token and a missing status
\* field included) leaves the job in flight, uses one retry and waits delay; it
\* never ends the polling in Succeeded or Failed. A polling that sees only such
\* tokens makes max_retries ticks and ends in TimedOut.
C17_UnrecognizedTokenInFlight ==
    /\ \A i \in DOMAIN fetched :
          IsUnrecognizedResult(fetched[i]) =>
              /\ attempt >= i
              /\ slept >= i * delay
              /\ i = Len(fetched) =>
                    /\ pollState \in {"InFlight", "TimedOut"}
                    /\ returned = <<>>
                    /\ pollState = "InFlight" => raised = <<>>
    /\ OnlyUnrecognized =>
          /\ pollState \in {"InFlight", "TimedOut"}
          /\ Len(fetched) <= max_retries
          /\ attempt = Len(fetched)
          /\ slept = Len(fetched) * delay
          /\ (pollState = "InFlight" /\ Len(fetched) < max_retries) => ENABLED PollTick
          /\ (pollState = "InFlight" /\ Len(fetched) = max_retries)
                => (ENABLED PollTimeout /\ ~ENABLED PollTick)
          /\ pollState = "TimedOut" =>
                /\ Len(fetched) = max_retries
                /\ raised = <<TimeoutException(max_retries)>>

\* Three ticks saw a snapshot without status field, the empty token and another
\* word, and the polling timed out after three waits.
C17_Witness ==
    /\ pollState = "TimedOut"
    /\ max_retries = 3
    /\ delay = 2
    /\ slept = 6
    /\ OnlyUnrecognized
    /\ "status" \notin DOMAIN fetched[1].snapshot
    /\ "status" \in DOMAIN fetched[2].snapshot /\ fetched[2].snapshot.status = EMPTY
    /\ "status" \in DOMAIN fetched[3].snapshot /\ fetched[3].snapshot.status = RUNNING

\* C18: a device has a record exactly when a POST /try-count for it has
\* committed; a record, once there, is never removed; and every committed set
\* stores the time it read as last_updated, so that with a clock that never goes
\* back the last_updated of a record never goes back either.
C18_RecordLifecycle ==
    [][ /\ \A d \in DeviceIds :
              /\ ({r \in db' : r.device_id = d} # {}) <=> (lastSet'[d] # <<>>)
              /\ RowsOf(d) # {} => {r \in db' : r.device_id = d} # {}
        /\ \A r \in db : \E q \in db' : /\ q.id = r.id
                                        /\ q.device_id = r.device_id
                                        /\ q.last_updated >= r.last_updated
        /\ (pc = "update_try_count" /\ resp'[1].code = 200) =>
              /\ clock' >= clock
              /\ \E q \in db' : /\ q.device_id = req.device_id
                                /\ q.last_updated = clock' ]_vars

\* The record of d1, the older of two records, was written again at time 1,
\* after the record of d2 was made at time 0.
C18_Witness ==
    /\ AnsweredOk("set-try-count")
    /\ req.device_id = "d1"
    /\ clock = 1
    /\ \E r \in db : r.device_id = "d1" /\ r.id = 1 /\ r.last_updated = 1
    /\ \E r \in db : r.device_id = "d2" /\ r.id = 2 /\ r.last_updated = 0

\* The polling has ended.
PollEnded == pollState # "InFlight"

\* C19: for every max_retries >= 0 and every sequence of fetch results, the
\* polling ends in exactly one of Succeeded, Failed and TimedOut, after at most
\* max_retries fetches: while in flight it always has a next step and each tick
\* uses up one of the max_retries attempts; once ended it takes no step; no
\* fetch follows a snapshot with a success or failure token; and with
\* max_retries = 0 it ends in TimedOut without a fetch.
C19_PollingBounded ==
    /\ pollState \in {"InFlight", "Succeeded", "Failed", "TimedOut"}
    /\ Len(fetched) <= max_retries
    /\ attempt <= Len(fetched)
    /\ pollState = "InFlight" =>
          /\ attempt = Len(fetched)
          /\ returned = <<>> /\ raised = <<>>
          /\ IF attempt < max_retries
             THEN ENABLED PollTick /\ ~ENABLED PollTimeout
             ELSE ENABLED PollTimeout /\ ~ENABLED PollTick
    /\ PollEnded => ~ENABLED PollTick /\ ~ENABLED PollTimeout
    /\ pollState = "Succeeded" => Len(returned) = 1 /\ raised = <<>>
    /\ pollState = "Failed" =>
          returned = <<>> /\ Len(raised) = 1 /\ raised # <<TimeoutException(max_retries)>>
    /\ pollState = "TimedOut" =>
          returned = <<>> /\ raised = <<TimeoutException(max_retries)>>
    /\ \A i \in DOMAIN fetched : i < Len(fetched) => IsInFlightResult(fetched[i])
    /\ max_retries = 0 => fetched = <<>> /\ pollState \in {"InFlight", "TimedOut"}

\* With max_retries = 0 the polling timed out without a fetch and without a wait.
C19_Witness ==
    /\ max_retries = 0
    /\ pollState = "TimedOut"
    /\ fetched = <<>>
    /\ slept = 0
    /\ raised = <<TimeoutException(0)>>

\* ----------------------------------------------------------- API key claim
\* C20: a request to POST /change-cloth, GET /status/{execution_id},
\* GET /try-count/{device_id}, POST /try-count or GET /devices whose X-API-Key
\* is not the configured key never gets into its handler: it makes no external
\* call, changes no record, and is answered 403 with no job or quota data.
C20_ApiKeyGate ==
    [][ (req'.endpoint # "none" /\ req'.api_key # API_KEY) =>
            /\ pc' \in {"verify", "done"}
            /\ calls' = <<>>
            /\ locals' = NoLocals
            /\ db' = db /\ lastSet' = lastSet
            /\ pc' = "verify" => resp' = <<>>
            /\ pc' = "done" =>
                  resp' = <<[code |-> 403, detail |-> <<"Invalid API key">>]>> ]_vars

\* A POST /try-count for d1 with another key was answered 403, and the record
\* of d1 holds the count it had, not the count of the request.
C20_Witness ==
    /\ Answered
    /\ req.endpoint = "set-try-count"
    /\ req.api_key # API_KEY
    /\ req.device_id = "d1"
    /\ resp[1].code = 403
    /\ \E r \in db : /\ RowsOf("d1") = {r}
                     /\ r.try_count_left # req.try_count
                     /\ <<r.try_count_left>> = lastSet["d1"]

====
